---- MODULE Spec2Model ----
(***************************************************************************)
(* A model of ike.bytecode (src/ike/bytecode.py): the two-pass assembler   *)
(* byc, the stack-depth analyzer stackdepth, the flag inferencer           *)
(* guess_flags, the line-table builder _build_linetable and the patch of   *)
(* func.__code__.                                                          *)
(*                                                                         *)
(* Python objects are records [id, t, n, s]: id is the object's identity,  *)
(* t its type, n its integer value (ints), s its items (tuples) or its     *)
(* text (a one-item sequence, strings).  Two objects may be equal in value *)
(* and differ in identity: every occurrence of a float or large-int        *)
(* literal in the parsed listing is an object of its own.                  *)
(***************************************************************************)
EXTENDS Integers, Sequences, FiniteSets, TLC

VARIABLES
    body,        \* the parsed listing (pass 1 rewrites operand nodes in place)
    co,          \* func.__code__ as it was when byc was called
    func_code,   \* func.__code__ now
    filter,      \* the action of the warnings filter for UnsafeBytecode
    f_globals,   \* func.__globals__
    f_locals,    \* frame.f_locals, the caller's local bindings
    pc,          \* where byc is (where it stopped, once error is set)
    idx,         \* the position of the running loop over body (1-based)
    bytecode, names, consts, vars, freevars, labels, bcount, lines,
    stacksize, flags, linetable,
    opts,        \* the scope the Option statements run in
    diags,       \* the diagnostics warnings.warn was called with
    error        \* the exception byc ended with, or "none"

vars_all == <<body, co, func_code, filter, f_globals, f_locals, pc, idx,
              bytecode, names, consts, vars, freevars, labels, bcount, lines,
              stacksize, flags, linetable, opts, diags, error>>

----------------------------------------------------------------------------
(* Bounds of the model. *)

\* the longest listing (statements in the procedure body)
MaxLen == 3

----------------------------------------------------------------------------
(* Python objects and AST nodes. *)

Obj(i, t, n, s) == [id |-> i, t |-> t, n |-> n, s |-> s]
IntObj(i, n) == Obj(i, "int", n, <<>>)
StrObj(i, text) == Obj(i, "str", 0, <<text>>)
TupleObj(items) == Obj(0, "tuple", 0, items)
\* the result of a failed name lookup
Unbound == Obj(0, "unbound", 0, <<>>)

Min(a, b) == IF a < b THEN a ELSE b
Max(a, b) == IF a > b THEN a ELSE b

\* list.index / tuple.index, 0-based; -1 when x is not an item
RECURSIVE IndexFrom(_, _, _)
IndexFrom(seq, x, k) ==
    IF k > Len(seq) THEN -1
    ELSE IF seq[k] = x THEN k - 1
    ELSE IndexFrom(seq, x, k + 1)
Index(seq, x) == IndexFrom(seq, x, 1)

\* ast.Constant(value), ast.Name(id); NoNode stands for an absent child
Constant(obj) == [t |-> "Constant", value |-> obj, id |-> ""]
Name(ident) == [t |-> "Name", value |-> Unbound, id |-> ident]
NoNode == [t |-> "None", value |-> Unbound, id |-> ""]

\* A statement of the listing.  stmt is the statement's type; for an Expr,
\* form is the shape of its value once a trailing "<< label" is taken off:
\* "at" (op @ right), "mod" (op % right), "name" (op), "binop" (a BinOp
\* with another operator), "other" (anything else, a docstring, a call);
\* lshift says whether the "<< label" was there.
Stmt(stmt, form, op, right, lshift, label, target, lineno) ==
    [stmt |-> stmt, form |-> form, op |-> op, right |-> right,
     lshift |-> lshift, label |-> label, target |-> target, lineno |-> lineno]
At(op, right) == Stmt("Expr", "at", op, right, FALSE, NoNode, "", 0)
Raw(op, right) == Stmt("Expr", "mod", op, right, FALSE, NoNode, "", 0)
Bare(op) == Stmt("Expr", "name", op, NoNode, FALSE, NoNode, "", 0)
Other == Stmt("Expr", "other", "", NoNode, FALSE, NoNode, "", 0)
BinOpOther == Stmt("Expr", "binop", "", NoNode, FALSE, NoNode, "", 0)
Pass == Stmt("Pass", "other", "", NoNode, FALSE, NoNode, "", 0)
Labelled(node, ident) == [node EXCEPT !.lshift = TRUE, !.label = Name(ident)]
\* target = value, and target += value
Assign(target, value) == Stmt("Assign", "other", "", value, FALSE, NoNode, target, 0)
AugAssign(target, value) == Stmt("AugAssign", "other", "", value, FALSE, NoNode, target, 0)

----------------------------------------------------------------------------
(* The opcode table of the target interpreter (CPython 3.9), as far as the *)
(* listings of the model use it.                                           *)

opmap ==
    [POP_TOP |-> 1, NOP |-> 9, INPLACE_POWER |-> 67, YIELD_FROM |-> 72,
     RETURN_VALUE |-> 83, YIELD_VALUE |-> 86, LOAD_CONST |-> 100,
     COMPARE_OP |-> 107, JUMP_FORWARD |-> 110, JUMP_ABSOLUTE |-> 113,
     POP_JUMP_IF_FALSE |-> 114, LOAD_GLOBAL |-> 116, LOAD_FAST |-> 124,
     STORE_FAST |-> 125, LOAD_DEREF |-> 136, EXTENDED_ARG |-> 144]

hasconst == {opmap.LOAD_CONST}
hasname == {opmap.LOAD_GLOBAL}
haslocal == {opmap.LOAD_FAST, opmap.STORE_FAST}
hasfree == {opmap.LOAD_DEREF}
hascompare == {opmap.COMPARE_OP}
hasjabs == {opmap.JUMP_ABSOLUTE, opmap.POP_JUMP_IF_FALSE}
hasjrel == {opmap.JUMP_FORWARD}
_hasjump == hasjabs \cup hasjrel
cmp_op == <<"<", "<=", "==", "!=", ">", ">=">>
HAVE_ARGUMENT == 90

\* opcode.stack_effect(op[, arg]) with jump=None: the larger of the effects
\* of the two ways out of a conditional jump
stack_effect(op, arg) ==
    CASE op \in {opmap.LOAD_CONST, opmap.LOAD_GLOBAL, opmap.LOAD_FAST,
                 opmap.LOAD_DEREF} -> 1
      [] op \in {opmap.POP_TOP, opmap.INPLACE_POWER, opmap.YIELD_FROM,
                 opmap.RETURN_VALUE, opmap.COMPARE_OP, opmap.POP_JUMP_IF_FALSE,
                 opmap.STORE_FAST} -> -1
      [] OTHER -> 0

----------------------------------------------------------------------------
(* Name lookup and the helpers of byc. *)

\* a dict as a function on its keys
EmptyDict == [k \in {} |-> Unbound]
DictSet(d, k, v) == (k :> v) @@ d

\* the value of ident in the first of maps that binds it
RECURSIVE LookupFrom(_, _, _)
LookupFrom(maps, ident, k) ==
    IF k > Len(maps) THEN Unbound
    ELSE IF ident \in DOMAIN maps[k] THEN maps[k][ident]
    ELSE LookupFrom(maps, ident, k + 1)
Lookup(maps, ident) == LookupFrom(maps, ident, 1)

\* eval(compile(Expression(node)), globals, locals): a Constant is its
\* value, a Name is looked up in locals, then globals; Unbound: NameError
_eval(node, globals, locals) ==
    IF node.t = "Constant" THEN node.value
    ELSE IF node.t = "Name" THEN Lookup(<<locals, globals>>, node.id)
    ELSE Unbound

\* _cast(node, t): the node itself when it is a t, else t(_eval(node))
_cast(node, t, globals, locals) ==
    IF node.t = t THEN node
    ELSE IF t = "Constant" THEN Constant(_eval(node, globals, locals))
    ELSE LET v == _eval(node, globals, locals)
         IN  Name(IF v.t = "str" THEN v.s[1] ELSE "")
\* whether _cast raises (the evaluation meets an unbound name)
_cast_raises(node, t, globals, locals) ==
    node.t # t /\ _eval(node, globals, locals).t = "unbound"

\* object.__eq__(a, b) is True: object's own comparison is True for the
\* same object and NotImplemented for any other
ObjectEq(a, b) == a.id = b.id

\* the 0-based position of the first v of pool with ObjectEq(value, v), or -1
RECURSIVE FindConst(_, _, _)
FindConst(pool, value, k) ==
    IF k > Len(pool) THEN -1
    ELSE IF ObjectEq(value, pool[k]) THEN k - 1
    ELSE FindConst(pool, value, k + 1)

\* bytearray.append(v) takes an int in range(0, 256)
ByteError(v) ==
    IF v.t = "unbound" THEN "NameError"
    ELSE IF v.t # "int" THEN "TypeError"
    ELSE IF v.n < 0 \/ v.n > 255 THEN "ValueError"
    ELSE "none"

----------------------------------------------------------------------------
(* Pass 1: pools, labels, the instruction counter, the line entries. *)

\* whether pass 1 reaches its last two lines for node (an Expr statement,
\* label taken off): the "op @ x" branch falls through; any other BinOp
\* meets one of the two "continue"s, "op % x" the second; a Name passes
Pass1Counts(node) ==
    IF node.form = "at" THEN TRUE
    ELSE IF node.form \in {"at", "mod", "binop"} /\ node.form # "mod" THEN FALSE
    ELSE IF node.form # "name" THEN FALSE
    ELSE TRUE

\* the pool an "@" operand of op is registered in
Pass1Scope(op) ==
    IF op \in hasname THEN "names"
    ELSE IF op \in haslocal THEN "vars"
    ELSE IF op \in hasfree THEN "freevars"
    ELSE "none"

\* one iteration of the first loop over body
Pass1Node(node) ==
    LET skip == [error |-> "none", node |-> node, names |-> names,
                 consts |-> consts, vars |-> vars, freevars |-> freevars,
                 labels |-> labels, counted |-> FALSE]
        lab == IF node.lshift
               THEN DictSet(labels, _cast(node.label, "Name", f_globals, f_locals).id, bcount)
               ELSE labels
        op == opmap[node.op]
        isconst == op \in hasconst
        scope == Pass1Scope(op)
        right == IF isconst THEN _cast(node.right, "Constant", f_globals, f_locals)
                 ELSE IF scope # "none" THEN _cast(node.right, "Name", f_globals, f_locals)
                 ELSE node.right
        add(pool) == IF Index(pool, right.id) = -1 THEN Append(pool, right.id) ELSE pool
    IN  IF node.stmt # "Expr" THEN skip
        ELSE IF node.lshift /\ _cast_raises(node.label, "Name", f_globals, f_locals)
        THEN [skip EXCEPT !.error = "NameError"]
        ELSE IF node.form # "at"
        THEN [skip EXCEPT !.labels = lab, !.counted = Pass1Counts(node)]
        ELSE IF node.op \notin DOMAIN opmap
        THEN [skip EXCEPT !.error = "KeyError"]
        ELSE IF (isconst /\ _cast_raises(node.right, "Constant", f_globals, f_locals))
                \/ (~isconst /\ scope # "none"
                    /\ _cast_raises(node.right, "Name", f_globals, f_locals))
        THEN [skip EXCEPT !.error = "NameError"]
        ELSE [error |-> "none",
              node |-> [node EXCEPT !.right = right],
              names |-> IF ~isconst /\ scope = "names" THEN add(names) ELSE names,
              consts |-> IF isconst /\ FindConst(consts, right.value, 1) = -1
                         THEN Append(consts, right.value) ELSE consts,
              vars |-> IF ~isconst /\ scope = "vars" THEN add(vars) ELSE vars,
              freevars |-> IF ~isconst /\ scope = "freevars" THEN add(freevars)
                           ELSE freevars,
              labels |-> lab,
              counted |-> Pass1Counts(node)]

Pass1Step ==
    /\ pc = "pass1"
    /\ error = "none"
    /\ LET r == Pass1Node(body[idx])
       IN  IF r.error # "none"
           THEN /\ UNCHANGED pc
                /\ error' = r.error
                /\ UNCHANGED <<body, idx, names, consts, vars, freevars, labels,
                               bcount, lines>>
           ELSE /\ body' = [body EXCEPT ![idx] = r.node]
                /\ names' = r.names
                /\ consts' = r.consts
                /\ vars' = r.vars
                /\ freevars' = r.freevars
                /\ labels' = r.labels
                /\ lines' = IF r.counted
                            THEN Append(lines, <<body[idx].lineno - 1, bcount>>)
                            ELSE lines
                /\ bcount' = IF r.counted THEN bcount + 1 ELSE bcount
                /\ idx' = IF idx = Len(body) THEN 1 ELSE idx + 1
                /\ pc' = IF idx = Len(body) THEN "pass2" ELSE "pass1"
                /\ UNCHANGED error
    /\ UNCHANGED <<co, func_code, filter, f_globals, f_locals, bytecode,
                   stacksize, flags, linetable, opts, diags>>

----------------------------------------------------------------------------
(* Pass 2: the instruction stream. *)

\* the error of bytearray.append(k) for an index k the encoder computed
IndexError(k) == IF k < 0 \/ k > 255 THEN "ValueError" ELSE "none"

\* the operand of "op @ right": [error, bytes], bytes being what is appended
\* after the opcode byte
Pass2Operand(op, right) ==
    LET one(err, k) == [error |-> IF err # "none" THEN err ELSE IndexError(k),
                        bytes |-> <<k>>]
        pooled(pool) == one(IF Index(pool, right.id) = -1 THEN "ValueError" ELSE "none",
                            Index(pool, right.id))
    IN  IF op \in hasconst
        THEN LET i == FindConst(consts, right.value, 1)
             IN  IF i = -1 THEN [error |-> "none", bytes |-> <<>>]
                 ELSE one("none", i)
        ELSE IF op \in hasname THEN pooled(names)
        ELSE IF op \in haslocal THEN pooled(vars)
        ELSE IF op \in hasfree THEN pooled(freevars)
        ELSE IF op \in hascompare
        THEN IF right.t # "Constant" THEN [error |-> "AttributeError", bytes |-> <<>>]
             ELSE IF right.value.t # "str"
                     \/ Index(cmp_op, right.value.s[1]) = -1
             THEN [error |-> "ValueError", bytes |-> <<>>]
             ELSE one("none", Index(cmp_op, right.value.s[1]))
        ELSE IF op \in hasjabs
        THEN IF right.t # "Name" THEN [error |-> "AttributeError", bytes |-> <<>>]
             ELSE IF right.id \notin DOMAIN labels
             THEN [error |-> "KeyError", bytes |-> <<>>]
             ELSE one("none", labels[right.id])
        ELSE LET v == _eval(right, f_globals, f_locals)
             IN  [error |-> ByteError(v), bytes |-> <<v.n>>]

\* one iteration of the second loop over body: [error, bytes]
Pass2Node(node) ==
    LET none == [error |-> "none", bytes |-> <<>>]
    IN  IF node.stmt # "Expr" THEN none
        ELSE IF node.form = "at"
        THEN LET r == Pass2Operand(opmap[node.op], node.right)
             IN  [error |-> r.error, bytes |-> <<opmap[node.op]>> \o r.bytes]
        ELSE IF node.form = "mod"
        THEN IF node.op \notin DOMAIN opmap THEN [none EXCEPT !.error = "KeyError"]
             ELSE LET v == _eval(node.right, f_globals, f_locals)
                  IN  [error |-> ByteError(v), bytes |-> <<opmap[node.op], v.n>>]
        ELSE IF node.form = "name"
        THEN IF node.op \notin DOMAIN opmap THEN [none EXCEPT !.error = "KeyError"]
             ELSE [error |-> "none", bytes |-> <<opmap[node.op], 0>>]
        ELSE none

Pass2Step ==
    /\ pc = "pass2"
    /\ error = "none"
    /\ LET r == Pass2Node(body[idx])
       IN  IF r.error # "none"
           THEN /\ UNCHANGED pc
                /\ error' = r.error
                /\ UNCHANGED <<idx, bytecode>>
           ELSE /\ bytecode' = bytecode \o r.bytes
                /\ idx' = IF idx = Len(body) THEN 1 ELSE idx + 1
                /\ pc' = IF idx = Len(body) THEN "analyze" ELSE "pass2"
                /\ UNCHANGED error
    /\ UNCHANGED <<body, co, func_code, filter, f_globals, f_locals, names,
                   consts, vars, freevars, labels, bcount, lines, stacksize,
                   flags, linetable, opts, diags>>

----------------------------------------------------------------------------
(* stackdepth: the stack-depth analyzer. *)

\* the instructions zip(*[iter(bytecode)] * 2) yields: whole pairs only
NInstr(bc) == Len(bc) \div 2
OpAt(bc, k) == bc[2 * k + 1]
ArgAt(bc, k) == bc[2 * k + 2]

\* the effect added for the instruction at index k (0-based)
EffectAt(bc, k) ==
    IF OpAt(bc, k) < HAVE_ARGUMENT THEN stack_effect(OpAt(bc, k), 0)
    ELSE stack_effect(OpAt(bc, k), ArgAt(bc, k))

\* a diagnostic; j = -1 on the main path, else the position in the walk
\* from the target of the jump at i
Diag(kind, i, j) == [kind |-> kind, i |-> i, j |-> j]

\* a mutant of Warn: the filter's action is never "error"
Warn_advisory(st, action, d) ==
    IF st.raised THEN st ELSE [st EXCEPT !.diags = Append(@, d)]

\* warnings.warn(message, UnsafeBytecode) under the filter's action: "error"
\* raises the warning, which ends stackdepth; "always" reports and goes on
Warn(st, action, d) ==
    IF st.raised THEN st
    ELSE [st EXCEPT !.diags = Append(@, d), !.raised = (action = "error")]

\* a mutant of UnbalancedJump: only a positive effect counts
UnbalancedJump_positive(op, current) == op \in _hasjump /\ current > 0

\* the main loop's test before the second warning: a jump, and a running
\* effect that is not zero
UnbalancedJump(op, current) == op \in _hasjump /\ current # 0

\* a mutant of BranchWalk: the walk from the target raises the peak too
RECURSIVE BranchWalk_peak(_, _, _, _, _, _, _)
BranchWalk_peak(bc, action, i, target, j, effect, st) ==
    IF st.raised \/ 2 * (target + j) + 2 > Len(bc) THEN st
    ELSE LET k == target + j
             branch_effect == effect + EffectAt(bc, k)
             s0 == [st EXCEPT !.stacksize = IF branch_effect > @
                                            THEN branch_effect ELSE @]
             s1 == IF branch_effect < 0
                   THEN Warn(s0, action, Diag("pop", i, j)) ELSE s0
             s2 == IF OpAt(bc, k) \in _hasjump /\ branch_effect # 0
                   THEN Warn(s1, action, Diag("jump", i, j)) ELSE s1
         IN  BranchWalk_peak(bc, action, i, target, j + 1, branch_effect, s2)

\* the walk from a jump target: pair j of bytecode[target * 2:]
RECURSIVE BranchWalk(_, _, _, _, _, _, _)
BranchWalk(bc, action, i, target, j, effect, st) ==
    IF st.raised \/ 2 * (target + j) + 2 > Len(bc) THEN st
    ELSE LET k == target + j
             branch_effect == effect + EffectAt(bc, k)
             s1 == IF branch_effect < 0
                   THEN Warn(st, action, Diag("pop", i, j)) ELSE st
             s2 == IF OpAt(bc, k) \in _hasjump /\ branch_effect # 0
                   THEN Warn(s1, action, Diag("jump", i, j)) ELSE s1
         IN  BranchWalk(bc, action, i, target, j + 1, branch_effect, s2)

\* the main loop from instruction i on
RECURSIVE MainWalk(_, _, _, _)
MainWalk(bc, action, i, st) ==
    IF st.raised \/ i >= NInstr(bc) THEN st
    ELSE LET op == OpAt(bc, i)
             current == st.current + EffectAt(bc, i)
             s0 == [st EXCEPT !.current = current,
                              !.stacksize = IF current > @ THEN current ELSE @]
             s1 == IF current < 0 THEN Warn(s0, action, Diag("pop", i, -1)) ELSE s0
             s2 == IF UnbalancedJump(op, current)
                   THEN Warn(s1, action, Diag("jump", i, -1)) ELSE s1
             target == IF op \in hasjrel THEN ArgAt(bc, i) + i ELSE ArgAt(bc, i)
             s3 == IF op \in _hasjump
                   THEN BranchWalk(bc, action, i, target, 0, current, s2) ELSE s2
         IN  MainWalk(bc, action, i + 1, s3)

\* [stacksize, diags, raised, current]: the value returned (when nothing was
\* raised), the warnings given, whether one was raised
stackdepth(bc, action) ==
    MainWalk(bc, action, 0,
             [current |-> 0, stacksize |-> 0, diags |-> <<>>, raised |-> FALSE])

----------------------------------------------------------------------------
(* guess_flags: the flag inferencer. *)

RECURSIVE BitAnd(_, _)
BitAnd(a, b) ==
    IF a = 0 \/ b = 0 THEN 0
    ELSE (a % 2) * (b % 2) + 2 * BitAnd(a \div 2, b \div 2)
RECURSIVE BitOr(_, _)
BitOr(a, b) ==
    IF a = 0 THEN b ELSE IF b = 0 THEN a
    ELSE Max(a % 2, b % 2) + 2 * BitOr(a \div 2, b \div 2)
RECURSIVE BitXor(_, _)
BitXor(a, b) ==
    IF a = 0 THEN b ELSE IF b = 0 THEN a
    ELSE (((a % 2) + (b % 2)) % 2) + 2 * BitXor(a \div 2, b \div 2)

CO_NEWLOCALS == 2
CO_VARARGS == 4
CO_VARKEYWORDS == 8
CO_NESTED == 16
CO_GENERATOR == 32
CO_NOFREE == 64
CO_COROUTINE == 128
CO_ASYNC_GENERATOR == 512

\* a mutant of FlagsLoop: any local-slot opcode sets CO_NEWLOCALS
RECURSIVE FlagsLoop_haslocal(_, _, _)
FlagsLoop_haslocal(bc, k, f) ==
    IF k > Len(bc) THEN f
    ELSE LET op == bc[k]
             f1 == IF op \in hasfree /\ BitAnd(f, CO_NOFREE) # 0
                   THEN BitXor(f, CO_NOFREE) ELSE f
             f2 == IF op = opmap.YIELD_VALUE \/ op = opmap.YIELD_FROM
                   THEN BitOr(f1, CO_GENERATOR) ELSE f1
             f3 == IF op \in haslocal THEN BitOr(f2, CO_NEWLOCALS) ELSE f2
         IN  FlagsLoop_haslocal(bc, k + 2, f3)

\* the loop over bytecode[::2], from the byte at 1-based position k on
RECURSIVE FlagsLoop(_, _, _)
FlagsLoop(bc, k, f) ==
    IF k > Len(bc) THEN f
    ELSE LET op == bc[k]
             f1 == IF op \in hasfree /\ BitAnd(f, CO_NOFREE) # 0
                   THEN BitXor(f, CO_NOFREE) ELSE f
             f2 == IF op = opmap.YIELD_VALUE \/ op = opmap.YIELD_FROM
                   THEN BitOr(f1, CO_GENERATOR) ELSE f1
             f3 == IF op = opmap.STORE_FAST THEN BitOr(f2, CO_NEWLOCALS) ELSE f2
         IN  FlagsLoop(bc, k + 2, f3)

\* the test that replaces coroutine and generator by async generator
BothModes(f) == BitAnd(f, BitAnd(CO_COROUTINE, CO_GENERATOR)) # 0

guess_flags(bc, original_flags) ==
    LET f1 == FlagsLoop(bc, 1, CO_NOFREE)
        f2 == BitOr(f1, BitAnd(original_flags,
                  BitOr(BitOr(CO_VARARGS, CO_VARKEYWORDS),
                        BitOr(CO_NESTED, CO_COROUTINE))))
    IN  IF BothModes(f2)
        THEN BitOr(BitXor(f2, BitOr(CO_COROUTINE, CO_GENERATOR)), CO_ASYNC_GENERATOR)
        ELSE f2

----------------------------------------------------------------------------
(* _build_linetable: the line-table builder. *)

\* the first loop: runs (start, end, line), from entry k of lines on
RECURSIVE MergeRuns(_, _, _)
MergeRuns(ls, k, table) ==
    IF k > Len(ls) THEN table
    ELSE LET line == ls[k][1]
             offset == ls[k][2]
             last == table[Len(table)]
         IN  IF last[3] = line
             THEN MergeRuns(ls, k + 1,
                     [table EXCEPT ![Len(table)] = <<last[1], offset + 2, last[3]>>])
             ELSE MergeRuns(ls, k + 1, Append(table, <<offset, offset + 2, line>>))

\* the second loop: the deltas, or the empty table when one is out of range
RECURSIVE EncodeRuns(_, _, _, _)
EncodeRuns(table, k, line, deltas) ==
    IF k > Len(table) THEN deltas
    ELSE LET db == table[k][2] - table[k][1]
             dl == table[k][3] - line
         IN  IF ~(0 <= db /\ db <= 254 /\ 0 <= dl /\ dl <= 127) THEN <<>>
             ELSE EncodeRuns(table, k + 1, table[k][3], deltas \o <<db, dl>>)

_build_linetable(ls) ==
    EncodeRuns(Tail(MergeRuns(ls, 1, << <<-1, -1, -1>> >>)), 1, 0, <<>>)

----------------------------------------------------------------------------
(* The derived metadata and the scope of the Option statements. *)

\* the dict opts as byc builds it
SeedOpts(f, ss, ns, cs, vs, fs) ==
    [k \in {"FLAGS", "STACK_SIZE", "NAMES", "CONSTS", "VARNAMES", "FREEVARS"} |->
        CASE k = "FLAGS" -> IntObj(0, f)
          [] k = "STACK_SIZE" -> IntObj(0, ss)
          [] k = "NAMES" -> TupleObj(ns)
          [] k = "CONSTS" -> TupleObj(cs)
          [] k = "VARNAMES" -> TupleObj(vs)
          [] k = "FREEVARS" -> TupleObj(fs)]

\* a mutant of Analyze: the derived descriptor is installed at once, and
\* installed again after the Options
Analyze_installs ==
    /\ pc = "analyze"
    /\ error = "none"
    /\ LET r == stackdepth(bytecode, filter)
       IN  /\ diags' = r.diags
           /\ IF r.raised
              THEN /\ UNCHANGED pc
                   /\ error' = "UnsafeBytecode"
                   /\ UNCHANGED <<stacksize, flags, linetable, opts, func_code>>
              ELSE /\ stacksize' = r.stacksize
                   /\ flags' = guess_flags(bytecode, co.co_flags)
                   /\ linetable' = _build_linetable(lines)
                   /\ opts' = SeedOpts(flags', stacksize', names, consts, vars, freevars)
                   /\ func_code' = [co EXCEPT !.patched = TRUE, !.co_code = bytecode,
                                              !.co_flags = flags',
                                              !.co_stacksize = stacksize']
                   /\ pc' = "options"
                   /\ UNCHANGED error
    /\ UNCHANGED <<body, co, filter, f_globals, f_locals, idx,
                   bytecode, names, consts, vars, freevars, labels, bcount, lines>>

Analyze ==
    /\ pc = "analyze"
    /\ error = "none"
    /\ LET r == stackdepth(bytecode, filter)
       IN  /\ diags' = r.diags
           /\ IF r.raised
              THEN /\ UNCHANGED pc
                   /\ error' = "UnsafeBytecode"
                   /\ UNCHANGED <<stacksize, flags, linetable, opts>>
              ELSE /\ stacksize' = r.stacksize
                   /\ flags' = guess_flags(bytecode, co.co_flags)
                   /\ linetable' = _build_linetable(lines)
                   /\ opts' = SeedOpts(flags', stacksize', names, consts, vars, freevars)
                   /\ pc' = "options"
                   /\ UNCHANGED error
    /\ UNCHANGED <<body, co, func_code, filter, f_globals, f_locals, idx,
                   bytecode, names, consts, vars, freevars, labels, bcount, lines>>

----------------------------------------------------------------------------
(* The Option statements: exec(node, func.__globals__,                     *)
(* ChainMap(opts, frame.f_locals)).                                        *)

\* a mutant of ChainMapSet: the write goes to the last map
ChainMapSet_last(maps, k, v) == [maps EXCEPT ![Len(maps)] = DictSet(maps[Len(maps)], k, v)]

\* ChainMap.__getitem__ is Lookup over the maps; ChainMap.__setitem__
\* writes the first map
ChainMapSet(maps, k, v) == [maps EXCEPT ![1] = DictSet(maps[1], k, v)]

\* a name of the executed statement: the locals mapping, then globals
ExecLoad(maps, globals, ident) == Lookup(maps \o <<globals>>, ident)
ExecEval(node, maps, globals) ==
    IF node.t = "Constant" THEN node.value
    ELSE IF node.t = "Name" THEN ExecLoad(maps, globals, node.id)
    ELSE Unbound

\* a + b of ints and of tuples; Unbound for a TypeError
PyAdd(a, b) ==
    IF a.t = "int" /\ b.t = "int" THEN IntObj(0, a.n + b.n)
    ELSE IF a.t = "tuple" /\ b.t = "tuple" THEN TupleObj(a.s \o b.s)
    ELSE Unbound

\* one Assign or AugAssign: [error, maps]
ExecOption(node, maps, globals) ==
    LET rhs == ExecEval(node.right, maps, globals)
        old == ExecLoad(maps, globals, node.target)
    IN  IF node.stmt = "AugAssign" /\ old.t = "unbound"
        THEN [error |-> "NameError", maps |-> maps]
        ELSE IF rhs.t = "unbound" THEN [error |-> "NameError", maps |-> maps]
        ELSE IF node.stmt = "AugAssign" /\ PyAdd(old, rhs).t = "unbound"
        THEN [error |-> "TypeError", maps |-> maps]
        ELSE [error |-> "none",
              maps |-> ChainMapSet(maps, node.target,
                          IF node.stmt = "AugAssign" THEN PyAdd(old, rhs) ELSE rhs)]

\* one iteration of the third loop over body
OptionStep ==
    /\ pc = "options"
    /\ error = "none"
    /\ LET node == body[idx]
           r == IF node.stmt \in {"Assign", "AugAssign"}
                THEN ExecOption(node, <<opts, f_locals>>, f_globals)
                ELSE [error |-> "none", maps |-> <<opts, f_locals>>]
       IN  IF r.error # "none"
           THEN /\ UNCHANGED pc
                /\ error' = r.error
                /\ UNCHANGED <<idx, opts, f_locals>>
           ELSE /\ opts' = r.maps[1]
                /\ f_locals' = r.maps[2]
                /\ idx' = IF idx = Len(body) THEN 1 ELSE idx + 1
                /\ pc' = IF idx = Len(body) THEN "patch" ELSE "options"
                /\ UNCHANGED error
    /\ UNCHANGED <<body, co, func_code, filter, f_globals, bytecode, names,
                   consts, vars, freevars, labels, bcount, lines, stacksize,
                   flags, linetable, diags>>

----------------------------------------------------------------------------
(* The patch: func.__code__ = code(...).                                   *)

\* a compiled-procedure descriptor
Code(patched, argcount, posonly, kwonly, nlocals, ss, f, bc, cs, ns, vs, lt, fs) ==
    [patched |-> patched, co_argcount |-> argcount,
     co_posonlyargcount |-> posonly, co_kwonlyargcount |-> kwonly,
     co_nlocals |-> nlocals, co_stacksize |-> ss, co_flags |-> f,
     co_code |-> bc, co_consts |-> cs, co_names |-> ns, co_varnames |-> vs,
     co_linetable |-> lt, co_freevars |-> fs]

\* the exception of code(...) for the values read back from opts, or "none":
\* len(vars) and the constructor's argument types, then the constructor's
\* check that varnames holds every argument
CodeError(o) ==
    IF o["VARNAMES"].t \notin {"tuple", "str"} THEN "TypeError"
    ELSE IF o["STACK_SIZE"].t # "int" \/ o["FLAGS"].t # "int" THEN "TypeError"
    ELSE IF \E k \in {"NAMES", "CONSTS", "VARNAMES", "FREEVARS"} : o[k].t # "tuple"
    THEN "TypeError"
    ELSE IF co.co_argcount + co.co_kwonlyargcount
            + (IF BitAnd(o["FLAGS"].n, CO_VARARGS) # 0 THEN 1 ELSE 0)
            + (IF BitAnd(o["FLAGS"].n, CO_VARKEYWORDS) # 0 THEN 1 ELSE 0)
            > Len(o["VARNAMES"].s)
    THEN "ValueError"
    ELSE "none"

Patch ==
    /\ pc = "patch"
    /\ error = "none"
    /\ IF CodeError(opts) # "none"
       THEN /\ UNCHANGED pc
            /\ error' = CodeError(opts)
            /\ UNCHANGED func_code
       ELSE /\ func_code' = Code(TRUE, co.co_argcount, co.co_posonlyargcount,
                                 co.co_kwonlyargcount, Len(opts["VARNAMES"].s),
                                 opts["STACK_SIZE"].n, opts["FLAGS"].n, bytecode,
                                 opts["CONSTS"].s, opts["NAMES"].s,
                                 opts["VARNAMES"].s, linetable, opts["FREEVARS"].s)
            /\ pc' = "done"
            /\ UNCHANGED error
    /\ UNCHANGED <<body, co, filter, f_globals, f_locals, idx, bytecode, names,
                   consts, vars, freevars, labels, bcount, lines, stacksize,
                   flags, linetable, opts, diags>>

----------------------------------------------------------------------------
(* The listings and callers the model is run on. *)

\* two occurrences of the literal 1000 (each parsed into an int object of
\* its own), the cached small ints, a tuple of the caller's
BigA == IntObj(11, 1000)
BigB == IntObj(12, 1000)
Small(n) == IntObj(n + 100, n)
CallerConsts == TupleObj(<<>>)

\* the original compiled body of a procedure with the given parameters
Original(argcount, varnames, f) ==
    Code(FALSE, argcount, 0, 0, Len(varnames), 1, f, <<>>, <<>>, <<>>,
         varnames, <<>>, <<>>)
\* def f(): ..., def f(n): ..., async def f(n): ..., def f(*args): ...
\* (flags: OPTIMIZED | NEWLOCALS | NOFREE, plus COROUTINE, plus VARARGS)
CoPlain == Original(0, <<>>, 67)
CoArg == Original(1, <<"n">>, 67)
CoAsync == Original(1, <<"n">>, 195)
CoVarargs == Original(0, <<"args">>, 71)

\* pools, labels and encoding
VocabAsm ==
    {At("LOAD_CONST", Constant(BigA)), At("LOAD_CONST", Constant(BigB)),
     Raw("EXTENDED_ARG", Constant(Small(1))), Bare("NOP"),
     At("JUMP_ABSOLUTE", Name("L")), At("JUMP_FORWARD", Name("L")),
     Labelled(Bare("RETURN_VALUE"), "L"),
     Assign("STACK_SIZE", Constant(Small(9))), Other, BinOpOther}
\* flags
VocabFlags ==
    {Bare("YIELD_VALUE"), At("LOAD_FAST", Name("n")), At("STORE_FAST", Name("a")),
     Raw("STORE_FAST", Constant(Small(0))), At("LOAD_DEREF", Name("c")),
     Bare("POP_TOP"), Bare("RETURN_VALUE")}
\* stack analysis
VocabStack ==
    {At("LOAD_CONST", Constant(Small(1))), Bare("POP_TOP"),
     At("JUMP_ABSOLUTE", Name("L")), At("POP_JUMP_IF_FALSE", Name("L")),
     Raw("JUMP_FORWARD", Constant(Small(1))), Bare("RETURN_VALUE"),
     Labelled(At("LOAD_CONST", Constant(Small(1))), "L"),
     Labelled(Bare("NOP"), "L")}
\* Options and failures
VocabOpts ==
    {At("LOAD_CONST", Constant(Small(1))), Bare("RETURN_VALUE"), Bare("POP_TOP"),
     Assign("STACK_SIZE", Constant(Small(9))),
     AugAssign("STACK_SIZE", Constant(Small(1))),
     Assign("CONSTS", Name("consts")), Assign("FLAGS", Name("STACK_SIZE")),
     Assign("VARNAMES", Constant(Small(3))),
     AugAssign("FLAGS", Name("undefined")),
     Bare("BOGUS"), Raw("EXTENDED_ARG", Constant(Small(256)))}

\* parameters: the original compiled body of a procedure with positional
\* (co_argcount, which counts the positional-only ones too), positional-only
\* and keyword-only parameters; varnames holds the parameters, then *args
OriginalParams(argcount, posonly, kwonly, varnames, f) ==
    [Original(argcount, varnames, f) EXCEPT !.co_posonlyargcount = posonly,
                                            !.co_kwonlyargcount = kwonly]
\* def f(a, b): ..., def f(a, /): ..., def f(a, /, b, *, c): ...,
\* def f(a, /, *args): ..., def f(*, c): ...
CoTwoArgs == OriginalParams(2, 0, 0, <<"a", "b">>, 67)
CoPosOnly == OriginalParams(1, 1, 0, <<"a">>, 67)
CoMixed == OriginalParams(2, 1, 1, <<"a", "b", "c">>, 67)
CoPosOnlyVarargs == OriginalParams(1, 1, 0, <<"a", "args">>, 71)
CoKwOnly == OriginalParams(0, 0, 1, <<"c">>, 67)
VocabParams ==
    {At("LOAD_FAST", Name("a")), At("STORE_FAST", Name("x")),
     Assign("STACK_SIZE", Constant(Small(9))), Bare("RETURN_VALUE"),
     Bare("POP_TOP")}

\* line layout: several instructions of one line (separated by ";"), and
\* source lines further apart than a line delta can encode
VocabLines ==
    {Bare("NOP"), Raw("EXTENDED_ARG", Constant(Small(1))), Bare("RETURN_VALUE")}
MaxLineDelta == 127
SameLine == 0
NextLine == 1
FarLine == MaxLineDelta + 1

\* the listing of sqrt, and the float literal 0.5 of its second line
Half == Obj(13, "float", 0, <<"0.5">>)
SqrtListing ==
    <<At("LOAD_FAST", Name("n")), At("LOAD_CONST", Constant(Half)),
      Bare("INPLACE_POWER"), Bare("RETURN_VALUE")>>

Families ==
    {[vocab |-> VocabAsm, cos |-> {CoPlain}, filters |-> {"always"},
      locals |-> {EmptyDict, DictSet(EmptyDict, "L", Small(5))},
      gaps |-> {NextLine}, examples |-> {}],
     [vocab |-> VocabFlags, cos |-> {CoPlain, CoArg, CoAsync, CoVarargs},
      filters |-> {"always"}, locals |-> {EmptyDict}, gaps |-> {NextLine}, examples |-> {}],
     [vocab |-> VocabStack, cos |-> {CoPlain}, filters |-> {"error", "always"},
      locals |-> {EmptyDict}, gaps |-> {NextLine}, examples |-> {}],
     [vocab |-> VocabOpts, cos |-> {CoPlain}, filters |-> {"error"},
      locals |-> {DictSet(EmptyDict, "consts", CallerConsts)},
      gaps |-> {NextLine}, examples |-> {}],
     [vocab |-> VocabParams,
      cos |-> {CoTwoArgs, CoPosOnly, CoMixed, CoPosOnlyVarargs, CoKwOnly},
      filters |-> {"always"}, locals |-> {EmptyDict}, gaps |-> {NextLine}, examples |-> {}],
     [vocab |-> VocabLines, cos |-> {CoPlain}, filters |-> {"always"},
      locals |-> {EmptyDict}, gaps |-> {SameLine, NextLine, FarLine},
      examples |-> {}],
     [vocab |-> {}, cos |-> {CoArg}, filters |-> {"error", "always"},
      locals |-> {EmptyDict}, gaps |-> {NextLine}, examples |-> {SqrtListing}]}

\* the listings of 1..MaxLen statements over vocab, one statement per line
\* under the decorator line and the def line
Listings(vocab) ==
    UNION {{[k \in 1..n |-> [s[k] EXCEPT !.lineno = k + 2]] : s \in [1..n -> vocab]} :
           n \in 1..MaxLen}

\* the listing laid out on source lines: the decorator on line 1, the def
\* statement on line 2, statement k on the line g[k] lines under the
\* statement before it (under the def line for the first)
RECURSIVE LineOf(_, _)
LineOf(g, k) == IF k = 0 THEN 2 ELSE LineOf(g, k - 1) + g[k]
Laid(listing, g) ==
    [k \in 1..Len(listing) |-> [listing[k] EXCEPT !.lineno = LineOf(g, k)]]

----------------------------------------------------------------------------
(* byc from its first line to the first loop, and the specification. *)

\* the names the body of the def statement binds, in order: the compiler
\* makes each target of an Option statement a local of the original
\* compiled body, after the parameters
RECURSIVE BoundNames(_, _, _)
BoundNames(b, k, seen) ==
    IF k > Len(b) THEN seen
    ELSE IF b[k].stmt \in {"Assign", "AugAssign"} /\ Index(seen, b[k].target) = -1
    THEN BoundNames(b, k + 1, Append(seen, b[k].target))
    ELSE BoundNames(b, k + 1, seen)
\* func.__code__ for a def with the parameters of base and the body b
Compiled(base, b) ==
    LET vs == BoundNames(b, 1, base.co_varnames)
    IN  [base EXCEPT !.co_varnames = vs, !.co_nlocals = Len(vs)]

arg_count(c) == c.co_argcount + c.co_posonlyargcount + c.co_kwonlyargcount

Init ==
    \E fam \in Families :
        /\ \E listing \in Listings(fam.vocab) \cup fam.examples :
              \E g \in [1..Len(listing) -> fam.gaps] : body = Laid(listing, g)
        /\ \E base \in fam.cos : co = Compiled(base, body)
        /\ filter \in fam.filters
        /\ f_locals \in fam.locals
        /\ f_globals = EmptyDict
        /\ func_code = co
        /\ pc = "pass1"
        /\ idx = 1
        /\ bytecode = <<>>
        /\ names = <<>>
        /\ consts = <<>>
        /\ vars = SubSeq(co.co_varnames, 1, Min(arg_count(co), Len(co.co_varnames)))
        /\ freevars = co.co_freevars
        /\ labels = EmptyDict
        /\ bcount = 0
        /\ lines = <<>>
        /\ stacksize = 0
        /\ flags = 0
        /\ linetable = <<>>
        /\ opts = EmptyDict
        /\ diags = <<>>
        /\ error = "none"

Next == Pass1Step \/ Pass2Step \/ Analyze \/ OptionStep \/ Patch

Spec == Init /\ [][Next]_vars_all

----------------------------------------------------------------------------
(* Vocabulary of the properties. *)

\* the statements the second loop emits an instruction for
Emits(node) == node.stmt = "Expr" /\ node.form \in {"at", "mod", "name"}
Instructions == {k \in 1..Len(body) : Emits(body[k])}
\* the index in the stream of the instruction of statement k (0-based)
StreamIndex(k) == Cardinality({j \in Instructions : j < k})
OpcodeOf(k) == bytecode[2 * StreamIndex(k) + 1]
OperandOf(k) == bytecode[2 * StreamIndex(k) + 2]
\* the "op @ x" statements whose opcode is one of ops
AtOf(ops) ==
    {k \in Instructions : body[k].form = "at" /\ opmap[body[k].op] \in ops}

Encoded == error = "none" /\ pc \in {"analyze", "options", "patch", "done"}
Derived == error = "none" /\ pc \in {"options", "patch", "done"}
Assembled == error = "none" /\ pc = "done"

\* equality of values, whatever the identities
ValueEq(a, b) == a.t = b.t /\ a.n = b.n /\ a.s = b.s

HasBit(f, bit) == BitAnd(f, bit) # 0

\* the running stack effect after instruction i of the stream (0-based)
RECURSIVE RunningEffect(_, _)
RunningEffect(bc, i) ==
    IF i < 0 THEN 0 ELSE RunningEffect(bc, i - 1) + EffectAt(bc, i)
IsJump(bc, i) == OpAt(bc, i) \in _hasjump

----------------------------------------------------------------------------
(* C1 *)

\* C1: for every listing byc assembles without raising, the stream has even
\* length, exactly 2 bytes per instruction counted in pass 1, every bare
\* opcode contributes operand byte 0, and every constant-class "@"
\* instruction finds its pool entry in pass 2.
C1_FixedWidth ==
    Assembled =>
        /\ Len(bytecode) % 2 = 0
        /\ Len(bytecode) = 2 * bcount
        /\ \A k \in Instructions :
              body[k].form = "name" =>
                  OpcodeOf(k) = opmap[body[k].op] /\ OperandOf(k) = 0
        /\ \A k \in AtOf(hasconst) :
              /\ OperandOf(k) < Len(consts)
              /\ ObjectEq(consts[OperandOf(k) + 1], body[k].right.value)

\* what holds of C1 once the pass-1 count is left out: 2 bytes for every
\* instruction pass 2 emits
C1_EmittedPairs ==
    Assembled =>
        /\ Len(bytecode) = 2 * Cardinality(Instructions)
        /\ \A k \in Instructions :
              body[k].form = "name" =>
                  OpcodeOf(k) = opmap[body[k].op] /\ OperandOf(k) = 0
        /\ \A k \in AtOf(hasconst) :
              /\ OperandOf(k) < Len(consts)
              /\ ObjectEq(consts[OperandOf(k) + 1], body[k].right.value)

----------------------------------------------------------------------------
(* C2 *)

\* the statements that declare label ident
Declares(ident) ==
    {k \in 1..Len(body) :
        body[k].stmt = "Expr" /\ body[k].lshift /\ body[k].label.id = ident}

\* C2: when an absolute jump uses "@ L" and L is declared once, on an
\* instruction, the jump's operand byte is the stream index of that
\* instruction: the byte at offset 2 * operand is its opcode.
C2_LabelRoundTrip ==
    Assembled =>
        \A j \in AtOf(hasjabs) : \A k \in Instructions :
            Declares(body[j].right.id) = {k} =>
                /\ OperandOf(j) = StreamIndex(k)
                /\ 2 * OperandOf(j) + 1 \in 1..Len(bytecode)
                /\ bytecode[2 * OperandOf(j) + 1] = opmap[body[k].op]

----------------------------------------------------------------------------
(* C3 *)

\* C3: a relative jump whose "@" operand names a declared label is encoded
\* through the label table: pass 2 does not fail on it and its operand byte
\* is the label's recorded instruction index.
C3_RelativeJumpLabel ==
    \A k \in AtOf(hasjrel) :
        (pc # "pass1" /\ body[k].right.id \in DOMAIN labels) =>
            /\ ~(pc = "pass2" /\ idx = k /\ error # "none")
            /\ Encoded => OperandOf(k) = labels[body[k].right.id]

----------------------------------------------------------------------------
(* C4 *)

\* C4: constants registered by "@" instructions that are the same object or
\* equal in value occupy the same pool index: the pool holds one entry for
\* them and both instructions encode that index.
C4_PoolUniqueness ==
    Assembled =>
        /\ \A j, k \in AtOf(hasconst) :
              (ObjectEq(body[j].right.value, body[k].right.value)
               \/ ValueEq(body[j].right.value, body[k].right.value))
                  => OperandOf(j) = OperandOf(k)
        /\ \A a, b \in 1..Len(consts) :
              ValueEq(consts[a], consts[b]) => a = b

----------------------------------------------------------------------------
(* C5 *)

HasYield(bc) ==
    \E i \in 0..(NInstr(bc) - 1) :
        OpAt(bc, i) \in {opmap.YIELD_VALUE, opmap.YIELD_FROM}

\* C5: for a stream with a yield-class opcode and original flags with the
\* coroutine bit, guess_flags returns the async-generator bit set and the
\* coroutine and generator bits clear; no result has coroutine and
\* generator set together.
C5_AsyncGenerator ==
    Derived =>
        /\ (HasYield(bytecode) /\ HasBit(co.co_flags, CO_COROUTINE)) =>
              /\ HasBit(flags, CO_ASYNC_GENERATOR)
              /\ ~HasBit(flags, CO_COROUTINE)
              /\ ~HasBit(flags, CO_GENERATOR)
        /\ ~(HasBit(flags, CO_COROUTINE) /\ HasBit(flags, CO_GENERATOR))

----------------------------------------------------------------------------
(* C6 *)

HasStoreFast(bc) ==
    \E i \in 0..(NInstr(bc) - 1) : OpAt(bc, i) = opmap.STORE_FAST

\* C6 as stated: the derived flags have the "requires fresh locals" bit
\* whenever the Local Slots pool is non-empty, and never for a listing with
\* no "@" operand on a local-slot opcode.
C6_FreshLocalsFromPool ==
    Derived =>
        /\ vars # <<>> => HasBit(flags, CO_NEWLOCALS)
        /\ AtOf(haslocal) = {} => ~HasBit(flags, CO_NEWLOCALS)

\* C6 amended: the derived flags have the "requires fresh locals" bit
\* exactly when the stream holds a STORE_FAST opcode, whatever the Local
\* Slots pool holds and whichever way the operand was written.
C6_FreshLocalsFromStoreFast ==
    Derived => (HasBit(flags, CO_NEWLOCALS) <=> HasStoreFast(bytecode))

\* a listing with no local-slot registration and a raw STORE_FAST gets the
\* bit
C6_Witness ==
    /\ Assembled
    /\ AtOf(haslocal) = {}
    /\ vars = <<>>
    /\ HasStoreFast(bytecode)
    /\ HasBit(flags, CO_NEWLOCALS)
    /\ HasBit(func_code.co_flags, CO_NEWLOCALS)

\* a listing with a non-empty Local Slots pool and no STORE_FAST does not
C6_WitnessPool ==
    /\ Assembled
    /\ vars # <<>>
    /\ AtOf(haslocal) # {}
    /\ ~HasBit(flags, CO_NEWLOCALS)

----------------------------------------------------------------------------
(* C7 *)

\* stackdepth has run: it returned, or it ended in a raised warning
Analyzed ==
    pc \in {"options", "patch", "done"} \/ (pc = "analyze" /\ error # "none")
Emitted(d) == \E n \in 1..Len(diags) : diags[n] = d
JumpDiag(i) == Diag("jump", i, -1)
UnsafeJump(bc, i) == IsJump(bc, i) /\ RunningEffect(bc, i) # 0
\* no jump, and a running effect that never goes below zero
StraightLine(bc) ==
    \A i \in 0..(NInstr(bc) - 1) : ~IsJump(bc, i) /\ RunningEffect(bc, i) >= 0

\* C7 as stated: the "non-zero stack effect before jump" diagnostic is
\* emitted for main-path instruction i exactly when i is a jump and the
\* running effect after it is non-zero; a jump-free listing whose running
\* effect never goes below zero triggers no diagnostic.
C7_JumpDiagnosticIff ==
    Analyzed =>
        /\ \A i \in 0..(NInstr(bytecode) - 1) :
              Emitted(JumpDiag(i)) <=> UnsafeJump(bytecode, i)
        /\ StraightLine(bytecode) => diags = <<>>

\* C7 amended: the diagnostic is emitted for main-path instruction i exactly
\* when i is a jump, the running effect after it is non-zero, and, under the
\* shipped "error" filter, no other diagnostic was raised first (the first
\* diagnostic raised ends the analysis; at a jump with a negative running
\* effect that is "possible pop from empty stack"); a jump-free listing
\* whose running effect never goes below zero triggers no diagnostic.
C7_JumpDiagnosticReached ==
    Analyzed =>
        /\ \A i \in 0..(NInstr(bytecode) - 1) :
              Emitted(JumpDiag(i)) <=>
                  /\ UnsafeJump(bytecode, i)
                  /\ filter = "error" =>
                        \A n \in 1..Len(diags) : diags[n] = JumpDiag(i)
        /\ StraightLine(bytecode) => diags = <<>>

\* as shipped, a jump with a negative running effect raises the pop
\* diagnostic and never gets the jump diagnostic
C7_Witness ==
    /\ filter = "error"
    /\ pc = "analyze"
    /\ error = "UnsafeBytecode"
    /\ \E i \in 0..(NInstr(bytecode) - 1) :
          /\ UnsafeJump(bytecode, i)
          /\ diags = <<Diag("pop", i, -1)>>

\* the spec's example: one push, then an unconditional jump to index 0
C7_WitnessPushJump ==
    /\ Analyzed
    /\ bytecode = <<opmap.LOAD_CONST, 0, opmap.JUMP_ABSOLUTE, 0>>
    /\ Emitted(JumpDiag(1))

----------------------------------------------------------------------------
(* C8 *)

\* the main path goes negative, or is non-zero at a jump
HasUnsafe(bc) ==
    \E i \in 0..(NInstr(bc) - 1) : RunningEffect(bc, i) < 0 \/ UnsafeJump(bc, i)

\* C8 as stated: as shipped, a listing that resolved and encoded is never
\* stopped by the analyzer.
C8_AnalyzerNeverBlocks ==
    (filter = "error" /\ pc = "analyze") => error = "none"

\* C8 amended: as shipped (filter action "error"), a listing that encoded
\* and whose running stack effect goes negative or is non-zero at a jump
\* ends byc in UnsafeBytecode at the analysis, with the body not replaced;
\* the analysis ends byc only through a diagnostic, and never when the
\* caller has downgraded the filter.
C8_AnalyzerBlocksAsShipped ==
    Analyzed =>
        /\ (filter = "error" /\ HasUnsafe(bytecode)) =>
              /\ pc = "analyze"
              /\ error = "UnsafeBytecode"
              /\ func_code = co
        /\ (pc = "analyze" /\ error # "none") =>
              /\ filter = "error"
              /\ diags # <<>>
        /\ (filter = "error" /\ pc # "analyze") => diags = <<>>

C8_Witness ==
    /\ filter = "error"
    /\ pc = "analyze"
    /\ error = "UnsafeBytecode"
    /\ HasUnsafe(bytecode)
    /\ func_code = co

\* with the filter downgraded, an unsafe listing is patched
C8_WitnessAdvisory ==
    /\ filter = "always"
    /\ Assembled
    /\ HasUnsafe(bytecode)
    /\ diags # <<>>

----------------------------------------------------------------------------
(* C9 *)

\* C9: byc is all-or-nothing on the procedure: whenever it fails, the body
\* is the one before the call, and the body is replaced only by the last
\* step, after pools, encoding, analysis and Options.
C9_AllOrNothing ==
    /\ error # "none" => func_code = co
    /\ pc # "done" => func_code = co
    /\ Assembled => func_code.patched /\ func_code.co_code = bytecode

\* the latest failure: the descriptor's construction
C9_Witness ==
    /\ pc = "patch"
    /\ error = "TypeError"
    /\ func_code = co
    /\ bytecode # <<>>

C9_WitnessOption == pc = "options" /\ error = "NameError" /\ func_code = co
C9_WitnessOpcode == pc = "pass2" /\ error = "KeyError" /\ func_code = co
C9_WitnessRange == pc = "pass2" /\ error = "ValueError" /\ func_code = co
C9_WitnessAnalysis == pc = "analyze" /\ error = "UnsafeBytecode" /\ func_code = co

----------------------------------------------------------------------------
(* C10 *)

OptionNames == {"FLAGS", "STACK_SIZE", "NAMES", "CONSTS", "VARNAMES", "FREEVARS"}
Options == {k \in 1..Len(body) : body[k].stmt \in {"Assign", "AugAssign"}}

\* the derived values, as bindings
DerivedBindings ==
    [k \in OptionNames |->
        CASE k = "FLAGS" -> IntObj(0, flags)
          [] k = "STACK_SIZE" -> IntObj(0, stacksize)
          [] k = "NAMES" -> TupleObj(names)
          [] k = "CONSTS" -> TupleObj(consts)
          [] k = "VARNAMES" -> TupleObj(vars)
          [] k = "FREEVARS" -> TupleObj(freevars)]

\* the value of a name in a scope env laid over the caller's bindings
RefValue(env, ident) ==
    IF ident \in DOMAIN env THEN env[ident]
    ELSE IF ident \in DOMAIN f_locals THEN f_locals[ident]
    ELSE f_globals[ident]
RefOperand(env, node) ==
    IF node.t = "Constant" THEN node.value ELSE RefValue(env, node.id)
RefSum(a, b) ==
    IF a.t = "int" THEN IntObj(0, a.n + b.n) ELSE TupleObj(a.s \o b.s)

\* the bindings after the Option assignments from statement k on, in
\* listing order
RECURSIVE RefRun(_, _)
RefRun(k, env) ==
    IF k > Len(body) THEN env
    ELSE IF body[k].stmt = "Assign"
    THEN RefRun(k + 1, (body[k].target :> RefOperand(env, body[k].right)) @@ env)
    ELSE IF body[k].stmt = "AugAssign"
    THEN RefRun(k + 1,
            (body[k].target :> RefSum(RefValue(env, body[k].target),
                                      RefOperand(env, body[k].right))) @@ env)
    ELSE RefRun(k + 1, env)

Installed ==
    [k \in OptionNames |->
        CASE k = "FLAGS" -> IntObj(0, func_code.co_flags)
          [] k = "STACK_SIZE" -> IntObj(0, func_code.co_stacksize)
          [] k = "NAMES" -> TupleObj(func_code.co_names)
          [] k = "CONSTS" -> TupleObj(func_code.co_consts)
          [] k = "VARNAMES" -> TupleObj(func_code.co_varnames)
          [] k = "FREEVARS" -> TupleObj(func_code.co_freevars)]

C10_Installed ==
    Assembled =>
        \A name \in OptionNames :
            /\ ValueEq(Installed[name], RefRun(1, DerivedBindings)[name])
            /\ (\A k \in Options : body[k].target # name) =>
                  ValueEq(Installed[name], DerivedBindings[name])

\* C10: each of FLAGS, STACK_SIZE, NAMES, CONSTS, VARNAMES, FREEVARS in the
\* installed descriptor is the value bound to that name after the Option
\* assignments ran in listing order in a scope holding the derived values
\* (a name no Option assigns keeps its derived value), and no step of byc
\* writes the caller's local bindings.
C10_OptionsOverride ==
    [](C10_Installed) /\ [][f_locals' = f_locals]_vars_all

\* an augmented assignment adjusted the derived stack size and a later
\* Option read the result
C10_Witness ==
    /\ Assembled
    /\ \E j, k \in Options :
          /\ j < k
          /\ body[j] = [body[j] EXCEPT !.stmt = "AugAssign", !.target = "STACK_SIZE"]
          /\ body[k] = [body[k] EXCEPT !.stmt = "Assign", !.target = "FLAGS",
                                       !.right = Name("STACK_SIZE")]
          /\ \A i \in Options : i \in {j, k}
    /\ func_code.co_stacksize = stacksize + 1
    /\ func_code.co_flags = stacksize + 1
    /\ func_code.co_flags # flags

----------------------------------------------------------------------------
(* C11 *)

\* the value pass 2 resolves for the operand of statement k, for the raw
\* integers (an "op % x", or an "op @ x" of an opcode with no operand class)
RawOperand(k) == _eval(body[k].right, f_globals, f_locals)
IsRawInt(k) ==
    /\ k \in Instructions
    /\ \/ body[k].form = "mod"
       \/ /\ body[k].form = "at"
          /\ opmap[body[k].op] \notin
                 hasconst \cup hasname \cup haslocal \cup hasfree
                 \cup hascompare \cup hasjabs
    /\ RawOperand(k).t = "int"
WideOperand(k) == IsRawInt(k) /\ RawOperand(k).n >= 256

\* pass 2 stopped at statement k
FailsAt(k) == pc = "pass2" /\ idx = k /\ error # "none"

\* C11: an operand of 256 or more does not make assembly fail (it is
\* encoded by a chain of extend-operand instructions), and every byte of the
\* stream is in 0..255.
C11_WideOperandEncoded ==
    /\ \A k \in 1..Len(body) : WideOperand(k) => ~FailsAt(k)
    /\ \A b \in 1..Len(bytecode) : bytecode[b] \in 0..255

\* what the encoder does with such an operand: bytearray.append raises
\* ValueError at it, so pass 2 never gets past the statement, no later step
\* runs and the procedure is left as it was
C11_WideOperandRaises ==
    \A k \in 1..Len(body) :
        WideOperand(k) =>
            /\ pc \in {"pass1", "pass2"}
            /\ pc = "pass2" => idx <= k
            /\ FailsAt(k) => error = "ValueError"
            /\ func_code = co

----------------------------------------------------------------------------
(* C12 *)

\* the declared parameters of the original procedure, in declaration order:
\* co_argcount positional ones (the positional-only among them), then the
\* keyword-only ones
Parameters(c) == SubSeq(c.co_varnames, 1, c.co_argcount + c.co_kwonlyargcount)
\* byc before the first registration of pass 1
Seeded == pc = "pass1" /\ idx = 1 /\ error = "none"

\* C12: before the first registration of pass 1 the Local Slots pool is
\* exactly the original procedure's positional (positional-only included)
\* and keyword-only parameter names in declaration order, whatever the
\* parameter counts and the other local names of the original compiled body.
C12_SeedIsParameters == Seeded => vars = Parameters(co)

\* the seed is the declared parameters when the procedure has no
\* positional-only parameter
C12_SeedWithoutPosOnly ==
    (Seeded /\ co.co_posonlyargcount = 0) => vars = Parameters(co)

\* the seed always begins with the declared parameters, and goes on for at
\* most co_posonlyargcount more names of the original compiled body
C12_SeedOvershoots ==
    Seeded =>
        /\ Len(vars) <= Len(Parameters(co)) + co.co_posonlyargcount
        /\ Len(vars) >= Len(Parameters(co))
        /\ vars = SubSeq(co.co_varnames, 1, Len(vars))

----------------------------------------------------------------------------
(* C13 *)

\* The reference line table of a sequence ls of (line, offset) entries.
\* entry k opens a run when it is the first or its line differs from the
\* line of the entry before it
OpensRun(ls, k) == k = 1 \/ ls[k][1] # ls[k - 1][1]
RunStarts(ls) == {k \in 1..Len(ls) : OpensRun(ls, k)}
NthRun(ls, i) ==
    CHOOSE k \in RunStarts(ls) : Cardinality({j \in RunStarts(ls) : j < k}) = i - 1
\* the number of instructions in the run that entry k opens
RunCount(ls, k) ==
    Cardinality({j \in k..Len(ls) : \A m \in (k + 1)..j : ~OpensRun(ls, m)})
\* the pair of run i: 2 bytes per instruction of the run, and the line
\* counted from the line of the run before it, the first from line 0
RunPair(ls, i) ==
    <<2 * RunCount(ls, NthRun(ls, i)),
      ls[NthRun(ls, i)][1] - (IF i = 1 THEN 0 ELSE ls[NthRun(ls, i - 1)][1])>>
ReferenceTable(ls) ==
    LET n == Cardinality(RunStarts(ls))
    IN  IF \E i \in 1..n : \/ RunPair(ls, i)[1] > 255
                           \/ RunPair(ls, i)[2] \notin 0..MaxLineDelta
        THEN <<>>
        ELSE [b \in 1..(2 * n) |-> RunPair(ls, (b + 1) \div 2)[2 - (b % 2)]]

\* the sum of the length deltas of a line table
RECURSIVE LengthSum(_, _)
LengthSum(lt, b) == IF b > Len(lt) THEN 0 ELSE lt[b] + LengthSum(lt, b + 2)

NonDecreasing(ls) == \A k \in 2..Len(ls) : ls[k - 1][1] <= ls[k][1]

\* C13: for the (line, offset) entries pass 1 collected, lines
\* non-decreasing, the line table is the reference table (one pair per
\* maximal same-line run: 2 bytes per instruction of the run, the line
\* delta; empty when a delta is out of range), and when it is not empty its
\* length deltas sum to the length of the instruction stream.
C13_LinetableReference ==
    (Derived /\ NonDecreasing(lines)) =>
        /\ linetable = ReferenceTable(lines)
        /\ linetable # <<>> => LengthSum(linetable, 1) = Len(bytecode)

\* the table is the reference one when no two instructions share a line
\* and pass 1 counted every instruction
C13_OneInstructionPerLine ==
    (/\ Derived
     /\ \A k \in 2..Len(lines) : lines[k - 1][1] < lines[k][1]
     /\ Len(bytecode) = 2 * bcount) =>
        /\ linetable = ReferenceTable(lines)
        /\ linetable # <<>> => LengthSum(linetable, 1) = Len(bytecode)

\* what the builder computes: a run of n counted instructions gets the
\* length delta n + 1 (the offsets are instruction indexes, the run ends 2
\* past the last one)
C13_RunLengthPlusOne ==
    Derived =>
        \/ linetable = <<>>
        \/ /\ Len(linetable) = 2 * Cardinality(RunStarts(lines))
           /\ \A i \in 1..Cardinality(RunStarts(lines)) :
                 /\ linetable[2 * i - 1] = RunCount(lines, NthRun(lines, i)) + 1
                 /\ linetable[2 * i] = RunPair(lines, i)[2]

----------------------------------------------------------------------------
(* C14 *)

\* the largest running stack effect over the prefixes of the stream, in
\* listing order, and 0 for the empty prefix
PrefixPeak(bc) ==
    LET effects == {0} \cup {RunningEffect(bc, i) : i \in 0..(NInstr(bc) - 1)}
    IN  CHOOSE m \in effects : \A e \in effects : e <= m
\* a jump to an instruction at or before itself
BackwardJump(bc, i) ==
    /\ IsJump(bc, i)
    /\ (IF OpAt(bc, i) \in hasjrel THEN ArgAt(bc, i) + i ELSE ArgAt(bc, i)) <= i
HasLoop(bc) == \E i \in 0..(NInstr(bc) - 1) : BackwardJump(bc, i)
\* the stream of sqrt
SqrtStream ==
    <<opmap.LOAD_FAST, 0, opmap.LOAD_CONST, 0, opmap.INPLACE_POWER, 0,
      opmap.RETURN_VALUE, 0>>

\* stackdepth comes to an end on the stream: its walks have a result
Terminates(bc, action) ==
    /\ stackdepth(bc, action).raised \in BOOLEAN
    /\ stackdepth(bc, action).stacksize \in Int
\* the analysis ended by returning, or by raising a diagnostic
Returned == pc \in {"options", "patch", "done"}
Raised == pc = "analyze" /\ error # "none"

\* C14 as stated: for every stream the encoder produced, stackdepth
\* terminates and returns max(0, the largest running stack effect over the
\* prefixes of the stream), 2 for sqrt.
C14_PeakForEveryStream ==
    /\ (pc = "analyze" /\ error = "none") => Terminates(bytecode, filter)
    /\ Analyzed =>
          /\ Returned
          /\ stacksize = PrefixPeak(bytecode)
          /\ bytecode = SqrtStream => stacksize = 2

\* C14 amended: stackdepth always terminates, by returning or, when it gave
\* a diagnostic and the filter's action is "error", by raising it; whenever
\* it returns, streams with backward jumps included, the value is max(0,
\* the largest running stack effect over the prefixes of the stream in
\* listing order): never negative, the same whatever the walks from the
\* jump targets met, and 2 for sqrt; it returns for every stream with no
\* diagnostic and for every stream when the filter is downgraded.
C14_PeakWhenReturned ==
    /\ (pc = "analyze" /\ error = "none") => Terminates(bytecode, filter)
    /\ Analyzed => (Returned \/ Raised)
    /\ Returned =>
          /\ stacksize = PrefixPeak(bytecode)
          /\ stacksize >= 0
          /\ bytecode = SqrtStream => stacksize = 2
    /\ Raised => (filter = "error" /\ diags # <<>> /\ error = "UnsafeBytecode")
    /\ (Analyzed /\ (filter # "error" \/ diags = <<>>)) => Returned

\* a loop whose walk from the jump target runs higher than the main path,
\* analysed to the end
C14_Witness ==
    /\ Derived
    /\ HasLoop(bytecode)
    /\ \E d \in 1..Len(diags) : diags[d].j >= 0
    /\ stacksize = PrefixPeak(bytecode)
    /\ stacksize > 0

\* sqrt, analysed under the shipped filter
C14_WitnessSqrt ==
    /\ Derived
    /\ filter = "error"
    /\ bytecode = SqrtStream
    /\ stacksize = 2

====
